---- MODULE Spec2Model ----
(***************************************************************************)
(* Streaming event-to-transcript reconciliation of the sales assistant     *)
(* chat (src/chat_ui.py): the EventHandler callbacks, create_tool_bubble   *)
(* and the azure_store_chat generator, driven by the chat widget of        *)
(* src/main.py.                                                            *)
(*                                                                         *)
(* Texts are sequences of one-character strings, so that concatenation,    *)
(* slicing and strip() are computed.  Formatted strings (f-strings) are    *)
(* sequences whose first element is the literal prefix.                    *)
(***************************************************************************)
EXTENDS Integers, Sequences, FiniteSets, TLC

\* ------------------------------------------------------------------ bounds
\* stream items of the one submission followed by SpecStream
MaxEvents == 3
\* stream items over the whole session followed by Spec
SessionEvents == 1
\* accepted submissions of the session followed by Spec
MaxSubmits == 2
\* seconds the clock advances after the session was created
MaxTime == 2
\* the visit index up to which get_next_visit is followed in SpecSales
MaxIndex == 4
\* times clear_history runs in the application followed by SpecApp
MaxClears == 1
\* tool events over the submissions followed by SpecTools
ToolEvents == 2

\* ------------------------------------------------------- program constants
\* time.time() - last_message_sent_time < 2
Cooldown == 2
\* output_str[:1000]
DisplayBudget == 1000
\* '...' if len(output_str) > 100
EllipsisThreshold == 100
\* last_message_sent_time = 0 when the interface is created
InitialSentTime == 0
\* time.time() when the first call can arrive: seconds since the epoch,
\* any value of at least Cooldown behaves alike
StartTime == 2
\* get_todays_clients(count=4)
FetchCount == 4
\* count = min(max(2, count), len(SAMPLE_CLIENTS))
MinClients == 2
\* random.randint(15, 60)
MinDaysAgo == 15
MaxDaysAgo == 60

\* ------------------------------------------------------------ input values
None == "None"
MsgIds == {"m1", "m2"}
CallIds == {"c1"}
\* final texts of a completed message, "" included
FinalTexts == {<<>>, <<"y">>}
\* texts typed by the user
UserTexts == {<<" ">>, <<"a">>, <<" ", "b">>}

\* --------------------------------------------------------------- metadata
\* ChatMessage.metadata: None, {} or {"title", "id", "status"}
NoMeta == [kind |-> "none", id |-> <<>>, title |-> <<>>, status |-> ""]
EmptyMeta == [kind |-> "empty", id |-> <<>>, title |-> <<>>, status |-> ""]
Meta(id, title, status) == [kind |-> "dict", id |-> id, title |-> title, status |-> status]

\* truthiness of a metadata value: None and {} are falsy
MetaTruthy(md) == md.kind = "dict"

\* ChatMessage(role, content, metadata); src is the message id the entry was
\* created for (None otherwise), an auxiliary field no code reads
ChatMessage(role, content, metadata, src) ==
    [role |-> role, content |-> content, metadata |-> metadata, src |-> src]

\* convert_dict_to_chatmessage without the metadata
convert_dict_to_chatmessage_plain(msg) ==
    ChatMessage(msg.role, msg.content, NoMeta, None)

convert_dict_to_chatmessage(msg) ==
    ChatMessage(msg.role, msg.content, msg.metadata, None)

convert_chatmessage_to_dict(msg) ==
    [role |-> msg.role, content |-> msg.content,
     metadata |-> IF MetaTruthy(msg.metadata) THEN msg.metadata ELSE EmptyMeta]

\* [convert_chatmessage_to_dict(m) for m in conversation]
Snapshot(conv) == [i \in 1..Len(conv) |-> convert_chatmessage_to_dict(conv[i])]

\* [convert_dict_to_chatmessage(m) for m in history]
FromHistory(history) == [i \in 1..Len(history) |-> convert_dict_to_chatmessage(history[i])]

\* ------------------------------------------------------------------ strings
IsSpace(c) == c = " "

RECURSIVE LStrip(_)
LStrip(s) == IF s # <<>> /\ IsSpace(Head(s)) THEN LStrip(Tail(s)) ELSE s

RECURSIVE RStrip(_)
RStrip(s) == IF s # <<>> /\ IsSpace(s[Len(s)]) THEN RStrip(SubSeq(s, 1, Len(s) - 1)) ELSE s

\* str.strip()
Strip(s) == RStrip(LStrip(s))

Min(a, b) == IF a < b THEN a ELSE b

\* ------------------------------------------------------- create_tool_bubble
\* f"{status_icon} {title_prefix}": the icon is a function of the status and
\* the prefix a function of the tool name
BubbleTitle(tool_name, status) == <<status, tool_name>>

\* f"tool-{call_id}"
BubbleId(call_id) == <<"tool-", call_id>>

\* for msg in reversed(conversation): the last index whose metadata id matches
RECURSIVE FindBubble(_, _, _)
FindBubble(conv, bubble_id, i) ==
    IF i = 0 THEN 0
    ELSE IF MetaTruthy(conv[i].metadata) /\ conv[i].metadata.id = bubble_id THEN i
    ELSE FindBubble(conv, bubble_id, i - 1)

\* create_tool_bubble without the search for an existing bubble
create_tool_bubble_appends(conv, tool_name, content, call_id, status) ==
    IF tool_name = None THEN conv
    ELSE Append(conv, ChatMessage("assistant", content,
                                  Meta(BubbleId(call_id), BubbleTitle(tool_name, status), status),
                                  None))

create_tool_bubble(conv, tool_name, content, call_id, status) ==
    IF tool_name = None THEN conv
    ELSE LET title == BubbleTitle(tool_name, status)
             bubble_id == BubbleId(call_id)
             existing == FindBubble(conv, bubble_id, Len(conv))
         IN IF existing # 0
            THEN [conv EXCEPT ![existing].metadata.title = title,
                              ![existing].metadata.status = status,
                              ![existing].content = content]
            ELSE Append(conv, ChatMessage("assistant", content,
                                          Meta(bubble_id, title, status), None))

\* ------------------------------------------------------------ EventHandler
\* EventHandler.__init__ with its conversation attached; the message map
\* holds the transcript position of the entry object it refers to
NewHandler ==
    [cur_id |-> None, acc |-> <<>>, map |-> [m \in {} |-> 0],
     tools |-> [c \in {} |-> 0]]

\* the outcome of a callback: the transcript, the handler and whether the
\* callback raised
Outcome(conv, h, raised) == [conv |-> conv, h |-> h, raised |-> raised]

\* on_message_delta putting the new entry in front of the transcript
on_message_delta_prepends(conv, h, id, text) ==
    Outcome(<<ChatMessage("assistant", text, NoMeta, id)>> \o conv, h, FALSE)

on_message_delta(conv, h, id, text) ==
    LET fresh == id # h.cur_id
        conv1 == IF fresh THEN Append(conv, ChatMessage("assistant", <<>>, NoMeta, id)) ELSE conv
        h1 == IF fresh
              THEN [h EXCEPT !.cur_id = id, !.acc = <<>>,
                             !.map = [m \in DOMAIN h.map \cup {id} |->
                                        IF m = id THEN Len(conv1) ELSE h.map[m]]]
              ELSE h
        h2 == IF text # <<>> THEN [h1 EXCEPT !.acc = h1.acc \o text] ELSE h1
        conv2 == IF text # <<>> /\ conv1 # <<>> /\ id \in DOMAIN h2.map
                 THEN [conv1 EXCEPT ![h2.map[id]].content = h2.acc]
                 ELSE conv1
    IN Outcome(conv2, h2, FALSE)

\* on_thread_message without the lookup in the message map
on_thread_message_appends(conv, h, id, role, status, final_content) ==
    IF role = "assistant" /\ status = "completed" /\ conv # <<>> /\ final_content # <<>>
    THEN Outcome(Append(conv, ChatMessage("assistant", final_content, NoMeta, id)), h, FALSE)
    ELSE Outcome(conv, h, FALSE)

on_thread_message(conv, h, id, role, status, final_content) ==
    IF role = "assistant" /\ status = "completed" /\ conv # <<>>
    THEN IF id \in DOMAIN h.map
         THEN Outcome([conv EXCEPT ![h.map[id]].content = final_content], h, FALSE)
         ELSE IF final_content # <<>>
              THEN Outcome(Append(conv, ChatMessage("assistant", final_content, NoMeta, id)), h, FALSE)
              ELSE Outcome(conv, h, FALSE)
    ELSE Outcome(conv, h, FALSE)

\* on_thread_run reporting a failed run in the transcript
on_thread_run_reports(conv, h, status) ==
    IF status = "failed"
    THEN Outcome(Append(conv, ChatMessage("assistant", <<"Run failed">>, NoMeta, None)), h, FALSE)
    ELSE Outcome(conv, h, FALSE)

\* on_thread_run only prints and records span attributes
on_thread_run(conv, h, status) == Outcome(conv, h, FALSE)

\* on_run_step_delta registering the call anew at every delta
on_run_step_delta_restarts(conv, h, call_id, type, has_function, name, arguments) ==
    IF type = "function" /\ has_function
    THEN LET tools1 == [c \in DOMAIN h.tools \cup {call_id} |->
                          IF c = call_id
                          THEN [name |-> name, arguments |-> arguments, status |-> "starting"]
                          ELSE h.tools[c]]
         IN Outcome(create_tool_bubble(conv, name, <<"...">>, call_id, "pending"),
                    [h EXCEPT !.tools = tools1], FALSE)
    ELSE Outcome(conv, h, FALSE)

\* one tool call of a run-step delta: tcall_delta.type, the function name
\* (None when absent) and the argument fragment; has_function is
\* tcall_delta.function being present
on_run_step_delta(conv, h, call_id, type, has_function, name, arguments) ==
    IF type = "function" /\ has_function
    THEN LET started == call_id \notin DOMAIN h.tools
             tools1 == IF started
                       THEN [c \in DOMAIN h.tools \cup {call_id} |->
                               IF c = call_id
                               THEN [name |-> name, arguments |-> <<>>, status |-> "starting"]
                               ELSE h.tools[c]]
                       ELSE h.tools
             conv1 == IF started
                      THEN create_tool_bubble(conv, name, <<"...">>, call_id, "pending")
                      ELSE conv
             tools2 == IF arguments # <<>>
                       THEN [tools1 EXCEPT ![call_id].arguments = @ \o arguments]
                       ELSE tools1
         IN Outcome(conv1, [h EXCEPT !.tools = tools2], FALSE)
    ELSE Outcome(conv, h, FALSE)

\* a tool output text: kind "absent" (no output), "nonjson" (json.loads
\* raises JSONDecodeError), "object" (a JSON object with the keys given) or
\* "number" (valid JSON that is no container); len is len(output_str) and
\* count the value of the "count" key
ToolOutput(kind, keys, len, count) == [kind |-> kind, keys |-> keys, len |-> len, count |-> count]

\* output_str[:1000]
Truncated(out) == ToString([kind |-> out.kind, keys |-> out.keys, shown |-> Min(out.len, DisplayBudget)])

\* '...' if len(output_str) > 100 else ''
Ellipsis(out) == IF out.len > EllipsisThreshold THEN <<"...">> ELSE <<>>

\* output[key]
Field(key) == "field:" \o key

\* the keys each kind-specific template reads
TemplateKeys(func_name) ==
    CASE func_name = "check_item_stock" -> {"name", "item_id", "stock"}
      [] func_name = "find_item_location" -> {"name", "item_id", "location_id", "position"}
      [] OTHER -> {"count", "low_stock_items"}

\* the try block of on_run_step for a function output that json.loads
\* parsed to an object: the display string, or raised when a key is missing
FormatObject(func_name, out) ==
    IF func_name = "get_shelf_layout" /\ "layout_visual" \in out.keys
    THEN [raised |-> FALSE, message |-> <<Field("layout_visual")>>]
    ELSE IF "message" \in out.keys
    THEN [raised |-> FALSE, message |-> <<Field("message")>>]
    ELSE IF "error" \in out.keys
    THEN [raised |-> FALSE, message |-> <<"Error: ", Field("error")>>]
    ELSE IF \/ func_name = "check_item_stock" /\ "stock" \in out.keys
            \/ func_name = "find_item_location" /\ "location_id" \in out.keys
    THEN [raised |-> ~(TemplateKeys(func_name) \subseteq out.keys),
          message |-> <<"template:", func_name>>]
    ELSE IF func_name = "get_items_needing_restock" /\ "count" \in out.keys
    THEN IF out.count > 0
         THEN [raised |-> ~(TemplateKeys(func_name) \subseteq out.keys),
               message |-> <<"Found low stock items:", ToString(out.count)>>]
         ELSE [raised |-> FALSE, message |-> <<"No items found needing restock.">>]
    ELSE [raised |-> FALSE,
          message |-> <<"Completed. Output: ", Truncated(out)>> \o Ellipsis(out)]

\* the message of a completed tool call were the parse error not caught
FormatOutputStrict(func_name, tcall_type, out) ==
    IF tcall_type = "function" /\ out.kind # "absent"
    THEN IF out.kind = "object" THEN FormatObject(func_name, out)
         ELSE [raised |-> TRUE, message |-> <<>>]
    ELSE IF tcall_type = "bing_grounding"
    THEN [raised |-> FALSE, message |-> <<"Finished searching web sources.">>]
    ELSE [raised |-> FALSE, message |-> <<"Tool call finished.">>]

\* the message of a completed tool call
FormatOutput(func_name, tcall_type, out) ==
    IF tcall_type = "function" /\ out.kind # "absent"
    THEN CASE out.kind = "nonjson" ->
                [raised |-> FALSE,
                 message |-> <<"Completed. Output (non-JSON): ", Truncated(out)>> \o Ellipsis(out)]
           [] out.kind = "number" ->
                \* "message" in output raises TypeError, which is no JSONDecodeError
                [raised |-> TRUE, message |-> <<>>]
           [] OTHER -> FormatObject(func_name, out)
    ELSE IF tcall_type = "bing_grounding"
    THEN [raised |-> FALSE, message |-> <<"Finished searching web sources.">>]
    ELSE [raised |-> FALSE, message |-> <<"Tool call finished.">>]

\* f"Tool call failed: {func_name} (ID: {call_id})" and the step's last error
FailureMessage(func_name, call_id, has_error) ==
    <<"Tool call failed: ", func_name, call_id>>
        \o (IF has_error THEN <<" - Error: ", "last_error.message">> ELSE <<>>)

\* del self.current_tool_calls[call_id]
Untrack(h, call_id) ==
    [h EXCEPT !.tools = [c \in DOMAIN h.tools \ {call_id} |-> h.tools[c]]]

\* a run step listing one tool call: step.type, step.status, step.last_error
\* being present, and the call's id, type and output
on_run_step(conv, h, step_type, status, has_error, call_id, tcall_type, out) ==
    IF step_type = "tool_calls"
    THEN LET func_name == IF call_id \in DOMAIN h.tools THEN h.tools[call_id].name
                          ELSE "unknown_function"
         IN CASE status = "completed" ->
                   LET f == FormatOutput(func_name, tcall_type, out)
                   IN IF f.raised THEN Outcome(conv, h, TRUE)
                      ELSE Outcome(create_tool_bubble(conv, func_name, f.message, call_id, "done"),
                                   Untrack(h, call_id), FALSE)
              [] status = "failed" ->
                   Outcome(create_tool_bubble(conv, func_name,
                                              FailureMessage(func_name, call_id, has_error),
                                              call_id, "error"),
                           Untrack(h, call_id), FALSE)
              [] OTHER -> Outcome(conv, Untrack(h, call_id), FALSE)
    ELSE Outcome(conv, h, FALSE)

\* --------------------------------------------------------- sales_functions
\* SAMPLE_CLIENTS of mock_api.py, by client id
SAMPLE_CLIENTS == <<"CL001", "CL002", "CL003">>

Max(a, b) == IF a > b THEN a ELSE b

\* random.sample(SAMPLE_CLIENTS, count) after count = min(max(2, count),
\* len(SAMPLE_CLIENTS)): the seed is the date, so any arrangement of count
\* distinct clients can be the day's list
get_todays_clients(count) ==
    LET n == Min(Max(MinClients, count), Len(SAMPLE_CLIENTS))
        ids == {SAMPLE_CLIENTS[k] : k \in 1..Len(SAMPLE_CLIENTS)}
    IN {list \in [1..n -> ids] : \A a, b \in 1..n : a # b => list[a] # list[b]}

\* current_client_list: None or a list of clients
NoClients == [some |-> FALSE, clients |-> <<>>]
Clients(list) == [some |-> TRUE, clients |-> list]

\* current_route: None or the response of the route service, of which the
\* order it computed (computeBestOrder) is kept: order[k] is the position in
\* the client list of the k-th stop
NoRoute == [some |-> FALSE, order |-> <<>>]
Route(order) == [some |-> TRUE, order |-> order]

\* not current_client_list
Falsy(list) == ~list.some \/ list.clients = <<>>

\* the module globals
Globals(route, list, index) == [route |-> route, list |-> list, index |-> index]

\* the JSON object a sales function returns: its status (error when it has
\* the key error), and the fields the visits are told by
Json(status, client_id, visit_number, total_visits, remaining_visits, location) ==
    [status |-> status, client_id |-> client_id, visit_number |-> visit_number,
     total_visits |-> total_visits, remaining_visits |-> remaining_visits,
     location |-> location]

\* a function's effect: the globals it leaves and the JSON it returns
Return(st, out) == [st |-> st, out |-> out]

\* the replies of the route service for n clients: no key configured, a
\* failed request, or a route with the stops in the order it found best
MapsReplies(n) ==
    {[kind |-> k, order |-> <<>>] : k \in {"nokey", "failed"}}
    \cup {[kind |-> "route", order |-> o] :
             o \in {f \in [1..n -> 1..n] : \A a, b \in 1..n : a # b => f[a] # f[b]}}

get_clients_for_today(st, fetched) ==
    Return([st EXCEPT !.index = -1, !.list = Clients(fetched)],
           Json("listed", "", 0, Len(fetched), 0, ""))

plan_optimal_route(st, fetched, maps) ==
    LET st1 == IF Falsy(st.list) THEN get_clients_for_today(st, fetched).st ELSE st
    IN IF Falsy(st1.list)
       THEN Return(st1, Json("no_clients", "", 0, 0, 0, "Office"))
       ELSE IF maps.kind # "route"
       THEN Return(st1, Json("error", "", 0, 0, 0, ""))
       ELSE Return([st1 EXCEPT !.route = Route(maps.order)],
                   Json("route", "", 0, Len(st1.list.clients), 0, ""))

\* get_next_visit reading the client before it has advanced the index
get_next_visit_stale(st, fetched, maps) ==
    LET planned == IF Falsy(st.list) THEN plan_optimal_route(st, fetched, maps)
                   ELSE Return(st, Json("", "", 0, 0, 0, ""))
    IN IF planned.out.status = "error"
       THEN planned
       ELSE LET st1 == [planned.st EXCEPT !.index = @ + 1]
                list == st1.list.clients
            IN IF st1.index >= Len(list)
               THEN Return(st1, Json("completed", "", 0, 0, 0, "Office"))
               ELSE Return(st1, Json("in_progress", list[Max(st1.index, 1)], st1.index + 1,
                                     Len(list), 0, ""))

\* get_next_visit starting the round again once the last client is done
get_next_visit_wraps(st, fetched, maps) ==
    LET planned == IF Falsy(st.list) THEN plan_optimal_route(st, fetched, maps)
                   ELSE Return(st, Json("", "", 0, 0, 0, ""))
    IN IF planned.out.status = "error"
       THEN planned
       ELSE LET st1 == [planned.st EXCEPT !.index = @ + 1]
                list == st1.list.clients
            IN IF st1.index >= Len(list)
               THEN Return([st1 EXCEPT !.index = -1], Json("completed", "", 0, 0, 0, "Office"))
               ELSE Return(st1, Json("in_progress", list[st1.index + 1], st1.index + 1,
                                     Len(list), 0, ""))

get_next_visit(st, fetched, maps) ==
    LET planned == IF Falsy(st.list) THEN plan_optimal_route(st, fetched, maps)
                   ELSE Return(st, Json("", "", 0, 0, 0, ""))
    IN IF planned.out.status = "error"
       THEN planned
       ELSE LET st1 == [planned.st EXCEPT !.index = @ + 1]
                list == st1.list.clients
            IN IF ~st1.list.some
               THEN \* len(None) raises TypeError, caught by except Exception
                    Return(st1, Json("error", "", 0, 0, 0, ""))
               ELSE IF st1.index >= Len(list)
               THEN Return(st1, Json("completed", "", 0, 0, 0, "Office"))
               ELSE Return(st1, Json("in_progress", list[st1.index + 1], st1.index + 1,
                                     Len(list), 0, ""))

\* get_current_visit_status counting the visit in progress as remaining
get_current_visit_status_counts(st, fetched, maps) ==
    LET planned == IF Falsy(st.list) THEN plan_optimal_route(st, fetched, maps)
                   ELSE Return(st, Json("", "", 0, 0, 0, ""))
    IN IF planned.out.status = "error"
       THEN planned
       ELSE LET st1 == planned.st
                list == st1.list.clients
            IN IF st1.index < 0
               THEN Return(st1, Json("not_started", "", 0, 0, 0, "Office"))
               ELSE IF st1.index >= Len(list)
               THEN Return(st1, Json("completed", "", 0, Len(list), 0, "Office"))
               ELSE Return(st1, Json("in_progress", list[st1.index + 1], st1.index + 1,
                                     Len(list), Len(list) - st1.index, ""))

get_current_visit_status(st, fetched, maps) ==
    LET planned == IF Falsy(st.list) THEN plan_optimal_route(st, fetched, maps)
                   ELSE Return(st, Json("", "", 0, 0, 0, ""))
    IN IF planned.out.status = "error"
       THEN planned
       ELSE LET st1 == planned.st
                list == st1.list.clients
            IN IF st1.index < 0
               THEN Return(st1, Json("not_started", "", 0, 0, 0, "Office"))
               ELSE IF ~st1.list.some
               THEN Return(st1, Json("error", "", 0, 0, 0, ""))
               ELSE IF st1.index >= Len(list)
               THEN Return(st1, Json("completed", "", 0, Len(list), 0, "Office"))
               ELSE Return(st1, Json("in_progress", list[st1.index + 1], st1.index + 1,
                                     Len(list), Len(list) - st1.index - 1, ""))

\* reset_sales_day that leaves the route of the day before
reset_sales_day_keeps_route(st) ==
    Return(Globals(st.route, NoClients, -1), Json("success", "", 0, 0, 0, ""))

\* the arguments generate_location_map is called with: none, a query, or a
\* latitude and a longitude
MapArgs == {"", "query", "coordinates"}

\* the replies of the geocoding service to a query
GeocodeReplies == {"failed", "not_found", "found"}

\* generate_location_map naming the first client of the list when it is
\* called without a place
generate_location_map_first(st, args, geocode, has_key) ==
    IF args = "" /\ ~Falsy(st.list)
    THEN Return(st, Json("map", st.list.clients[1], 0, 0, 0, "visit"))
    ELSE Return(st, Json("error", "", 0, 0, 0, "no_location"))

\* generate_location_map: the map of the current visit, of the place the
\* query was geocoded to, or of the coordinates; the function assigns no
\* global.  location tells which place the map is of, or which error
generate_location_map(st, args, geocode, has_key) ==
    LET active == /\ ~Falsy(st.list)
                  /\ 0 <= st.index
                  /\ st.index < Len(st.list.clients)
    IN IF args = "" /\ ~active
       THEN Return(st, Json("error", "", 0, 0, 0, "no_location"))
       ELSE IF args = "query" /\ geocode = "failed"
       THEN Return(st, Json("error", "", 0, 0, 0, "geocoding_failed"))
       ELSE IF args = "query" /\ geocode = "not_found"
       THEN Return(st, Json("error", "", 0, 0, 0, "not_found"))
       ELSE IF ~has_key
       THEN Return(st, Json("error", "", 0, 0, 0, "no_key"))
       ELSE IF args = ""
       THEN Return(st, Json("map", st.list.clients[st.index + 1], 0, 0, 0, "visit"))
       ELSE Return(st, Json("map", "", 0, 0, 0, args))

reset_sales_day(st) ==
    Return(Globals(NoRoute, NoClients, -1), Json("success", "", 0, 0, 0, ""))

\* ----------------------------------------------------------------- mock_api
\* a date of the calendar
Date(year, month, day) == [year |-> year, month |-> month, day |-> day]

\* datetime.replace(day=max(1, day - 1)) and, on the first of a month, the
\* month before (December of the year before in January): one pass of the
\* loop of get_client_details
StepBack(d) ==
    LET d1 == [d EXCEPT !.day = Max(1, d.day - 1)]
    IN IF d1.day = 1
       THEN IF d1.month > 1
            THEN [d1 EXCEPT !.month = d1.month - 1]
            ELSE [d1 EXCEPT !.year = d1.year - 1, !.month = 12]
       ELSE d1

\* the keys of a sample client and those get_client_details adds
ClientKeys == {"id", "name", "contact", "address", "coordinates", "priority"}
AdditionalKeys == {"last_visit", "total_purchases", "active_contracts", "notes"}

\* {**client, **additional_info}: for each key, the dict its value comes from
Merged ==
    [k \in ClientKeys \cup AdditionalKeys |->
        IF k \in AdditionalKeys THEN "additional_info" ELSE "client"]

\* what get_client_details returns: the merged dict with its last_visit, or
\* the error with the id it names
Details(is_error, named, from, last_visit) ==
    [is_error |-> is_error, named |-> named, from |-> from, last_visit |-> last_visit]

\* for client in SAMPLE_CLIENTS: if client["id"] == client_id
Found(client_id) == \E k \in 1..Len(SAMPLE_CLIENTS) : SAMPLE_CLIENTS[k] = client_id

\* a call of get_client_details: the client id, datetime.now() and the number
\* random.randint drew, the passes of the loop still to make, the loop's
\* last_visit, and what the call returned
DetailsCall(client_id, today, days_ago, looping, passes, last_visit, done, out) ==
    [client_id |-> client_id, today |-> today, days_ago |-> days_ago,
     looping |-> looping, passes |-> passes, last_visit |-> last_visit,
     done |-> done, out |-> out]

\* no call of get_client_details
NoDetails ==
    DetailsCall("", Date(0, 1, 1), 0, FALSE, 0, Date(0, 1, 1), FALSE,
         Details(FALSE, "", Merged, Date(0, 1, 1)))

\* get_client_details up to its loop: an unknown id returns the error, a
\* known one starts the loop at today.replace(day=1)
get_client_details(c) ==
    IF Found(c.client_id)
    THEN [c EXCEPT !.looping = TRUE, !.passes = c.days_ago,
                   !.last_visit = [c.today EXCEPT !.day = 1]]
    ELSE [c EXCEPT !.done = TRUE, !.out = Details(TRUE, c.client_id, Merged, c.today)]

\* one pass of for _ in range(days_ago); after the last pass the merged dict
\* is returned with the last_visit the loop left
MoveBack(c) ==
    LET last_visit == StepBack(c.last_visit)
    IN IF c.passes > 1
       THEN [c EXCEPT !.passes = c.passes - 1, !.last_visit = last_visit]
       ELSE [c EXCEPT !.passes = 0, !.last_visit = last_visit, !.looping = FALSE,
                      !.done = TRUE,
                      !.out = Details(FALSE, c.client_id, Merged, last_visit)]

\* ------------------------------------------------------------------- state
VARIABLES
    now,                      \* time.time()
    last_message_sent_time,   \* create_chat_interface: nonlocal of azure_store_chat
    conversation_state,       \* create_chat_interface: the session transcript
    pc,                       \* where the generator of the accepted submission is suspended
    handler,                  \* the EventHandler of the running submission
    chatbot,                  \* the chat widget value: the snapshot last yielded to it
    snapshot,                 \* the snapshot last yielded by the accepted submission
    last_step,                \* what the last step of that generator did
    call,                     \* the latest azure_store_chat call
    item,                     \* the stream item taken last
    seen,                     \* the kinds of items the open stream has delivered
    sends,                    \* user messages delivered to the remote thread
    streams,                  \* event streams opened
    submit_budget,            \* submissions the session may still accept
    event_budget,             \* stream items the session may still take
    span,                     \* chat_span of the running submission: none, open or ended
    epoch,                    \* the global thread of main.py when the running submission was called
    other,                    \* a second generator of the session, suspended meanwhile
    exits,                    \* event streams whose with block was left
    escaped,                  \* an exception has left a generator
    thread,                   \* main.py: the global thread, numbered in order of creation
    sent_thread,              \* the thread the last user message was sent to
    cleared,                  \* clear_history has run and no submission was accepted since
    stale,                    \* leading entries of the session transcript made before the last clear_history
    formatting,               \* the response formatter: function name, tool output and display string
    current_route,            \* sales_functions.py: the route saved by plan_optimal_route
    current_client_list,      \* sales_functions.py: the clients fetched for today
    current_visit_index,      \* sales_functions.py: -1 at the office, then the position in the list
    result,                   \* what the sales function called last returned
    finished,                 \* get_next_visit has returned completed since the clients were fetched
    visited,                  \* the clients get_next_visit has returned since the clients were fetched
    details                   \* a call of mock_api.get_client_details: its inputs and what it returned

vars == <<now, last_message_sent_time, conversation_state, pc, handler, chatbot,
          snapshot, last_step, call, item, seen, sends, streams, submit_budget,
          event_budget, span, epoch, other, exits, escaped, thread, sent_thread,
          cleared, stale, formatting, current_route, current_client_list,
          current_visit_index, result, finished, visited, details>>

\* the module globals of sales_functions.py
sales == <<current_route, current_client_list, current_visit_index, result, finished,
           visited>>

\* what the chat session does not touch
aside == <<formatting, sales, details>>

\* the chat session
chat == <<now, last_message_sent_time, conversation_state, pc, handler, chatbot,
          snapshot, last_step, call, item, seen, sends, streams, submit_budget,
          event_budget, span, epoch, other, exits, escaped, thread, sent_thread,
          cleared, stale>>

\* what the widget and clear_history of main.py add to a session
app == <<thread, sent_thread, cleared, stale>>

\* a stream item: the event type and the fields of its payload the handler
\* reads (the id of the message or tool call, role, status, text, function
\* name, tool output)
Item(type, id, role, status, text, name, out) ==
    [type |-> type, id |-> id, role |-> role, status |-> status, text |-> text,
     name |-> name, out |-> out]

NoOutput == ToolOutput("absent", {}, 0, 0)

NoItem == Item("none", "", "", "", <<>>, None, NoOutput)

\* the record kept of a call: when it was made, its text, whether the history
\* passed was [] (emptied), which guard it met, a bit that alternates from
\* one call to the next, and for an accepted call whether the call before it
\* was rejected
CallRecord(t, text, emptied, outcome, bit, after_rejection) ==
    [t |-> t, text |-> text, emptied |-> emptied, outcome |-> outcome, bit |-> bit,
     after_rejection |-> after_rejection]

NoCall == CallRecord(0, <<>>, FALSE, "none", FALSE, FALSE)

\* a call with this outcome is accepted right after a rejected one
AfterRejection(outcome) == outcome = "accepted" /\ call.outcome \in {"cooldown", "empty"}

\* the thread created when main.py starts, the one the interface bound to
\* the widget's listeners was created with
FirstThread == 0

\* the local state of a generator of azure_store_chat
Generator(p, h, snap, step, it, sn, sp, ep) ==
    [pc |-> p, handler |-> h, snapshot |-> snap, last_step |-> step, item |-> it,
     seen |-> sn, span |-> sp, epoch |-> ep]

NoGenerator == Generator("idle", NewHandler, <<>>, "none", NoItem, {}, "none", FirstThread)

\* create_chat_interface has returned; no call was made yet
Created ==
    /\ now = StartTime
    /\ last_message_sent_time = InitialSentTime
    /\ conversation_state = <<>>
    /\ pc = "idle"
    /\ handler = NewHandler
    /\ chatbot = <<>>
    /\ snapshot = <<>>
    /\ last_step = "none"
    /\ call = NoCall
    /\ item = NoItem
    /\ seen = {}
    /\ sends = 0
    /\ streams = 0
    /\ span = "none"
    /\ epoch = FirstThread
    /\ other = NoGenerator
    /\ exits = 0
    /\ escaped = FALSE
    /\ thread = FirstThread
    /\ sent_thread = FirstThread
    /\ cleared = FALSE
    /\ stale = 0

\* no sales function was called yet
NoResult ==
    [fn |-> "", args |-> "", out |-> Json("", "", 0, 0, 0, ""), bit |-> FALSE,
     before |-> Globals(NoRoute, NoClients, -1)]

\* the formatter at rest
NoFormatting == [func_name |-> "", out |-> NoOutput, done |-> FALSE, raised |-> FALSE,
                 message |-> <<>>]

\* sales_functions.py has been imported
Imported ==
    /\ current_route = NoRoute
    /\ current_client_list = NoClients
    /\ current_visit_index = -1
    /\ result = NoResult
    /\ finished = FALSE
    /\ visited = <<>>

\* sales_functions.py has been imported and no tool output is being formatted
Apart ==
    /\ Imported
    /\ formatting = NoFormatting
    /\ details = NoDetails

Init ==
    /\ Created
    /\ Apart
    /\ submit_budget = MaxSubmits
    /\ event_budget = SessionEvents

InitStream ==
    /\ Created
    /\ Apart
    /\ submit_budget = 1
    /\ event_budget = MaxEvents

\* the clock advances
Tick ==
    /\ now < StartTime + MaxTime
    /\ now' = now + 1
    /\ UNCHANGED <<last_message_sent_time, conversation_state, pc, handler, chatbot,
                   snapshot, last_step, call, item, seen, sends, streams, submit_budget,
                   event_budget, span, epoch, other, exits, escaped, app>>
    /\ UNCHANGED aside

\* the guards without the cooldown
GuardWithoutCooldown(current_time, user_message) ==
    IF Strip(user_message) = <<>> THEN "empty" ELSE "accepted"

\* the guards without the check for an empty text
GuardWithoutEmptyCheck(current_time, user_message) ==
    IF current_time - last_message_sent_time < Cooldown THEN "cooldown" ELSE "accepted"

\* the guards with a cooldown that rejects only the text of an entry of the
\* transcript
GuardComparingTexts(current_time, user_message) ==
    IF /\ current_time - last_message_sent_time < Cooldown
       /\ \E i \in 1..Len(conversation_state) :
              /\ conversation_state[i].role = "user"
              /\ conversation_state[i].content = user_message
    THEN "cooldown"
    ELSE IF Strip(user_message) = <<>> THEN "empty"
    ELSE "accepted"

\* which guard of azure_store_chat a call meets
Guard(current_time, user_message) ==
    IF current_time - last_message_sent_time < Cooldown THEN "cooldown"
    ELSE IF Strip(user_message) = <<>> THEN "empty"
    ELSE "accepted"

\* azure_store_chat yielding the session transcript, not history, when it
\* rejects a call
azure_store_chat_yields_state(user_message, history) ==
    LET outcome == Guard(now, user_message)
    IN IF outcome # "accepted"
       THEN /\ chatbot' = Snapshot(conversation_state)
            /\ call' = CallRecord(now, user_message, history = <<>>, outcome, ~call.bit,
                                    AfterRejection(outcome))
            /\ UNCHANGED <<now, last_message_sent_time, conversation_state, pc, handler,
                           snapshot, last_step, item, seen, sends, streams, submit_budget,
                           event_budget, span, epoch, other, exits, escaped, app>>
       ELSE /\ pc = "idle"
            /\ other.pc = "idle"
            /\ submit_budget > 0
            /\ LET base == IF history # <<>> THEN FromHistory(history) ELSE conversation_state
                   conversation == Append(base, ChatMessage("user", user_message, NoMeta, None))
               IN /\ conversation_state' = conversation
                  /\ chatbot' = Snapshot(conversation)
                  /\ snapshot' = Snapshot(conversation)
            /\ call' = CallRecord(now, user_message, history = <<>>, outcome, ~call.bit,
                                    AfterRejection(outcome))
            /\ last_message_sent_time' = now
            /\ last_step' = "user"
            /\ pc' = "send"
            /\ submit_budget' = submit_budget - 1
            /\ span' = "none"
            /\ epoch' = thread
            /\ cleared' = FALSE
            /\ UNCHANGED <<now, handler, item, seen, sends, streams, event_budget, other,
                           exits, escaped, thread, sent_thread, stale>>

\* azure_store_chat restarting the cooldown when it rejects a call
azure_store_chat_restarts(user_message, history) ==
    LET outcome == Guard(now, user_message)
    IN IF outcome # "accepted"
       THEN /\ chatbot' = history
            /\ call' = CallRecord(now, user_message, history = <<>>, outcome, ~call.bit,
                                    AfterRejection(outcome))
            /\ last_message_sent_time' = now
            /\ UNCHANGED <<now, conversation_state, pc, handler,
                           snapshot, last_step, item, seen, sends, streams, submit_budget,
                           event_budget, span, epoch, other, exits, escaped, app>>
       ELSE /\ pc = "idle"
            /\ other.pc = "idle"
            /\ submit_budget > 0
            /\ LET base == IF history # <<>> THEN FromHistory(history) ELSE conversation_state
                   conversation == Append(base, ChatMessage("user", user_message, NoMeta, None))
               IN /\ conversation_state' = conversation
                  /\ chatbot' = Snapshot(conversation)
                  /\ snapshot' = Snapshot(conversation)
            /\ call' = CallRecord(now, user_message, history = <<>>, outcome, ~call.bit,
                                    AfterRejection(outcome))
            /\ last_message_sent_time' = now
            /\ last_step' = "user"
            /\ pc' = "send"
            /\ submit_budget' = submit_budget - 1
            /\ span' = "none"
            /\ epoch' = thread
            /\ cleared' = FALSE
            /\ UNCHANGED <<now, handler, item, seen, sends, streams, event_budget, other,
                           exits, escaped, thread, sent_thread, stale>>

\* azure_store_chat up to its first yield.  A rejected call yields history and
\* returns; an accepted call appends the user entry and suspends before the
\* send.  Calls are made one at a time: an accepted call starts only when no
\* earlier submission is still streaming.
azure_store_chat(user_message, history) ==
    LET outcome == Guard(now, user_message)
    IN IF outcome # "accepted"
       THEN /\ chatbot' = history
            /\ call' = CallRecord(now, user_message, history = <<>>, outcome, ~call.bit,
                                    AfterRejection(outcome))
            /\ UNCHANGED <<now, last_message_sent_time, conversation_state, pc, handler,
                           snapshot, last_step, item, seen, sends, streams, submit_budget,
                           event_budget, span, epoch, other, exits, escaped, app>>
       ELSE /\ pc = "idle"
            /\ other.pc = "idle"
            /\ submit_budget > 0
            /\ LET base == IF history # <<>> THEN FromHistory(history) ELSE conversation_state
                   conversation == Append(base, ChatMessage("user", user_message, NoMeta, None))
               IN /\ conversation_state' = conversation
                  /\ chatbot' = Snapshot(conversation)
                  /\ snapshot' = Snapshot(conversation)
            /\ call' = CallRecord(now, user_message, history = <<>>, outcome, ~call.bit,
                                    AfterRejection(outcome))
            /\ last_message_sent_time' = now
            /\ last_step' = "user"
            /\ pc' = "send"
            /\ submit_budget' = submit_budget - 1
            /\ span' = "none"
            /\ epoch' = thread
            /\ cleared' = FALSE
            /\ UNCHANGED <<now, handler, item, seen, sends, streams, event_budget, other,
                           exits, escaped, thread, sent_thread, stale>>

\* the histories the chat widget passes: its current value, or [] when an
\* example button emptied it first (main.py: .then(lambda: [], outputs=chatbot))
Submit ==
    /\ \E user_message \in UserTexts, history \in {chatbot, <<>>} :
           azure_store_chat(user_message, history)
    /\ UNCHANGED aside

\* the error entry appended without the yield that shows it
FailWithoutYield(conv, content, step) ==
    /\ conversation_state' = Append(conv, ChatMessage("assistant", content, NoMeta, None))
    /\ UNCHANGED <<chatbot, snapshot>>
    /\ last_step' = step
    /\ pc' = "idle"

\* the generator appends an assistant error entry, yields and returns
FailWith(conv, content, step) ==
    LET conversation == Append(conv, ChatMessage("assistant", content, NoMeta, None))
    IN /\ conversation_state' = conversation
       /\ chatbot' = Snapshot(conversation)
       /\ snapshot' = Snapshot(conversation)
       /\ last_step' = step
       /\ pc' = "idle"

SendErrorText == <<"Error sending message: ", "msg_ex">>
StreamErrorText == <<"An error occurred while processing your request: ", "stream_ex">>

\* the failed send without the return: the stream is opened all the same
SendFailsOpensStream ==
    /\ pc = "send"
    /\ conversation_state' = Append(conversation_state,
                                    ChatMessage("assistant", SendErrorText, NoMeta, None))
    /\ chatbot' = Snapshot(conversation_state')
    /\ snapshot' = Snapshot(conversation_state')
    /\ last_step' = "send_error"
    /\ handler' = NewHandler
    /\ streams' = streams + 1
    /\ seen' = {}
    /\ pc' = "stream"
    /\ span' = "open"
    /\ UNCHANGED <<now, last_message_sent_time, call, item, sends, submit_budget, event_budget,
                   epoch, other, exits, escaped, app>>
    /\ UNCHANGED aside

\* create_message raises: one error entry, one yield, return
SendFails ==
    /\ pc = "send"
    /\ FailWith(conversation_state, SendErrorText, "send_error")
    /\ span' = "ended"
    /\ UNCHANGED <<now, last_message_sent_time, handler, call, item, seen, sends, streams,
                   submit_budget, event_budget, epoch, other, exits, escaped, app>>
    /\ UNCHANGED aside

\* create_message succeeds, the handler is created and create_stream raises:
\* the except of the stream appends the error entry, then the final yield
OpenFails ==
    /\ pc = "send"
    /\ sends' = sends + 1
    /\ handler' = NewHandler
    /\ FailWith(conversation_state, StreamErrorText, "stream_error")
    /\ sent_thread' = FirstThread
    /\ span' = "ended"
    /\ UNCHANGED <<now, last_message_sent_time, call, item, seen, streams, submit_budget,
                   event_budget, epoch, other, exits, escaped, thread, cleared, stale>>
    /\ UNCHANGED aside

\* create_message succeeds, the handler is created and the stream is entered
OpenStream ==
    /\ pc = "send"
    /\ sends' = sends + 1
    /\ streams' = streams + 1
    /\ handler' = NewHandler
    /\ pc' = "stream"
    /\ last_step' = "opened"
    /\ seen' = {}
    /\ sent_thread' = FirstThread
    /\ span' = "open"
    /\ UNCHANGED <<now, last_message_sent_time, conversation_state, chatbot, snapshot,
                   call, item, submit_budget, event_budget, epoch, other, exits, escaped,
                   thread, cleared, stale>>
    /\ UNCHANGED aside

\* the item processed without the yield at the end of the loop body
DeliverWithoutYield(it, tag, r, propagates) ==
    /\ pc = "stream"
    /\ event_budget > 0
    /\ event_budget' = event_budget - 1
    /\ item' = it
    /\ seen' = seen \cup {tag}
    /\ IF r.raised /\ propagates
       THEN /\ FailWith(r.conv, StreamErrorText, "stream_error")
            /\ handler' = r.h
            /\ exits' = exits + 1
            /\ span' = "ended"
       ELSE /\ conversation_state' = r.conv
            /\ handler' = r.h
            /\ UNCHANGED <<chatbot, snapshot>>
            /\ last_step' = IF r.raised THEN "absorbed" ELSE "event"
            /\ pc' = "stream"
            /\ UNCHANGED <<exits, span>>
    /\ UNCHANGED <<now, last_message_sent_time, call, sends, streams, submit_budget,
                   epoch, other, escaped, app>>

\* One item of the stream.  The stream hands the event to the handler's
\* callback while the for statement asks for the next item, outside the try
\* of the loop body.  What becomes of an exception of the callback is the
\* dispatcher's choice: it either leaves the iteration (propagates) or is
\* absorbed by the dispatcher, which then returns the item.  The loop body
\* itself only reads the item and yields the snapshot.  r is the outcome of
\* the callback and tag the kind of the item.
Deliver(it, tag, r, propagates) ==
    /\ pc = "stream"
    /\ event_budget > 0
    /\ event_budget' = event_budget - 1
    /\ item' = it
    /\ seen' = seen \cup {tag}
    /\ IF r.raised /\ propagates
       THEN /\ FailWith(r.conv, StreamErrorText, "stream_error")
            /\ handler' = r.h
            /\ exits' = exits + 1
            /\ span' = "ended"
       ELSE /\ conversation_state' = r.conv
            /\ handler' = r.h
            /\ chatbot' = Snapshot(r.conv)
            /\ snapshot' = Snapshot(r.conv)
            /\ last_step' = IF r.raised THEN "absorbed" ELSE "event"
            /\ pc' = "stream"
            /\ UNCHANGED <<exits, span>>
    /\ UNCHANGED <<now, last_message_sent_time, call, sends, streams, submit_budget,
                   epoch, other, escaped, app>>

\* the message deltas of the streams: an id and the text of its chunks
MessageDeltas ==
    { Item("thread.message.delta", d[1], "assistant", "", d[2], None, NoOutput) :
        d \in {<<"m1", <<>>>>, <<"m1", <<"x">>>>, <<"m2", <<"x">>>>} }

MessageDelta ==
    /\ \E it \in MessageDeltas :
           Deliver(it, <<"delta", it.id>>,
                   on_message_delta(conversation_state, handler, it.id, it.text), TRUE)
    /\ UNCHANGED aside

\* the messages of the streams: completed assistant messages, and a message
\* of the user
ThreadMessages ==
    { Item("thread.message", "m1", role, "completed", final, None, NoOutput) :
        role \in {"assistant", "user"}, final \in FinalTexts }

ThreadMessage ==
    /\ \E it \in ThreadMessages :
           Deliver(it, <<IF it.role = "assistant" THEN "message" ELSE "ignored", it.id>>,
                   on_thread_message(conversation_state, handler, it.id, it.role, it.status, it.text),
                   TRUE)
    /\ UNCHANGED aside

ThreadRun ==
    /\ \E status \in {"completed", "failed"} :
           Deliver(Item("thread.run", "run-1", "", status, <<>>, None, NoOutput), <<"run", "">>,
                   on_thread_run(conversation_state, handler, status), TRUE)
    /\ UNCHANGED aside

\* the tool-call deltas of the streams: the delta that names the function,
\* and deltas that carry an argument fragment and no name
RunStepDeltas ==
    { Item("thread.run.step.delta", call_id, "", "", d[2], d[1], NoOutput) :
        call_id \in CallIds,
        d \in {<<"get_clients_for_today", <<>>>>, <<None, <<"{">>>>, <<None, <<"}">>>>} }

\* a delta starts a call when the call is not tracked and the delta names the
\* function; a delta for a tracked call is an argument fragment
DeltaTag(h, it) ==
    IF it.id \in DOMAIN h.tools THEN <<"fragment", it.id>>
    ELSE IF it.name # None THEN <<"start", it.id>>
    ELSE <<"anonymous", it.id>>

RunStepDelta ==
    /\ \E it \in RunStepDeltas :
           Deliver(it, DeltaTag(handler, it),
                   on_run_step_delta(conversation_state, handler, it.id, "function", TRUE,
                                     it.name, it.text), TRUE)
    /\ UNCHANGED aside

\* the tool outputs of the streams: a text that is no JSON, a JSON number and
\* a JSON object
Outputs ==
    { ToolOutput("nonjson", {}, 150, 0),
      ToolOutput("number", {}, 50, 0),
      ToolOutput("object", {"message", "error"}, 50, 0) }

\* the run steps of the streams, each of type tool_calls and listing one
\* function tool call
RunSteps ==
    { Item("thread.run.step", call_id, "", "completed", <<>>, None, out) :
        call_id \in CallIds, out \in Outputs }
    \cup { Item("thread.run.step", call_id, "", status, <<>>, None, NoOutput) :
             call_id \in CallIds, status \in {"failed", "in_progress"} }

RunStep ==
    /\ \E it \in RunSteps, propagates \in BOOLEAN :
           LET r == on_run_step(conversation_state, handler, "tool_calls", it.status, TRUE,
                                it.id, "function", it.out)
           IN /\ r.raised \/ propagates
              /\ Deliver(it, <<IF r.raised THEN "raised" ELSE it.status, it.id>>, r, propagates)
    /\ UNCHANGED aside

\* an item the loop body cannot unpack: the except of the loop body prints
\* and continues with the next item, without a yield
BadItem ==
    /\ pc = "stream"
    /\ event_budget > 0
    /\ event_budget' = event_budget - 1
    /\ item' = Item("malformed", "", "", "", <<>>, None, NoOutput)
    /\ seen' = seen \cup {<<"bad", "">>}
    /\ last_step' = "skipped"
    /\ UNCHANGED <<now, last_message_sent_time, conversation_state, pc, handler, chatbot,
                   snapshot, call, sends, streams, submit_budget, span, epoch, other,
                   exits, escaped, app>>
    /\ UNCHANGED aside

\* the iteration raises (the connection breaks): the except of the stream
\* appends the error entry, then the final yield
IterationFails ==
    /\ pc = "stream"
    /\ FailWith(conversation_state, StreamErrorText, "stream_error")
    /\ exits' = exits + 1
    /\ span' = "ended"
    /\ UNCHANGED <<now, last_message_sent_time, handler, call, item, seen, sends, streams,
                   submit_budget, event_budget, epoch, other, escaped, app>>
    /\ UNCHANGED aside

\* the stream ends: the with block is left and the final snapshot yielded
StreamEnds ==
    /\ pc = "stream"
    /\ chatbot' = Snapshot(conversation_state)
    /\ snapshot' = Snapshot(conversation_state)
    /\ last_step' = "finished"
    /\ pc' = "idle"
    /\ exits' = exits + 1
    /\ span' = "ended"
    /\ UNCHANGED <<now, last_message_sent_time, conversation_state, handler, call, item,
                   seen, sends, streams, submit_budget, event_budget, epoch, other, escaped,
                   app>>
    /\ UNCHANGED aside

\* the steps of a submission once it was accepted
Run ==
    \/ SendFails
    \/ OpenFails
    \/ OpenStream
    \/ MessageDelta
    \/ ThreadMessage
    \/ ThreadRun
    \/ RunStepDelta
    \/ RunStep
    \/ BadItem
    \/ IterationFails
    \/ StreamEnds

Next == Tick \/ Submit \/ Run

\* a session: calls at any time, up to MaxSubmits submissions
Spec == Init /\ [][Next]_vars

NextStream == Submit \/ Run

\* one submission and the calls made during its cooldown
SpecStream == InitStream /\ [][NextStream]_vars

InitTools ==
    /\ Created
    /\ Apart
    /\ submit_budget = MaxSubmits
    /\ event_budget = ToolEvents

NextTools ==
    \/ Tick
    \/ Submit
    \/ OpenStream
    \/ RunStepDelta
    \/ RunStep
    \/ StreamEnds

\* the submissions of a session whose streams carry tool events only
SpecTools == InitTools /\ [][NextTools]_vars

\* ------------------------------------------------------------ application
\* tracer.start_span or a set_attribute of the new span raises when the
\* generator is resumed after its first yield: the statements are outside
\* the try, so the exception leaves the generator
SpanFails ==
    /\ pc = "send"
    /\ pc' = "idle"
    /\ last_step' = "raised"
    /\ escaped' = TRUE
    /\ UNCHANGED <<now, last_message_sent_time, conversation_state, handler, chatbot,
                   snapshot, call, item, seen, sends, streams, submit_budget, event_budget,
                   span, epoch, other, exits, app>>
    /\ UNCHANGED aside

\* the caller closes the generator suspended at its first yield, which is
\* before the span and before the try
CloseBeforeSend ==
    /\ pc = "send"
    /\ pc' = "idle"
    /\ last_step' = "closed"
    /\ UNCHANGED <<now, last_message_sent_time, conversation_state, handler, chatbot,
                   snapshot, call, item, seen, sends, streams, submit_budget, event_budget,
                   span, epoch, other, exits, escaped, app>>
    /\ UNCHANGED aside

\* the generator closed in the loop without leaving the with block and
\* without the finally
CloseInStreamLeaks ==
    /\ pc = "stream"
    /\ last_step \in {"event", "absorbed"}
    /\ pc' = "idle"
    /\ last_step' = "closed"
    /\ UNCHANGED <<now, last_message_sent_time, conversation_state, handler, chatbot,
                   snapshot, call, item, seen, sends, streams, submit_budget, event_budget,
                   span, epoch, other, exits, escaped, app>>
    /\ UNCHANGED aside

\* the caller closes the generator suspended at the yield of the loop body:
\* GeneratorExit is no Exception, it passes the three except clauses, leaves
\* the with block (the stream's __exit__) and runs the finally (chat_span.end)
CloseInStream ==
    /\ pc = "stream"
    /\ last_step \in {"event", "absorbed"}
    /\ exits' = exits + 1
    /\ span' = "ended"
    /\ pc' = "idle"
    /\ last_step' = "closed"
    /\ UNCHANGED <<now, last_message_sent_time, conversation_state, handler, chatbot,
                   snapshot, call, item, seen, sends, streams, submit_budget, event_budget,
                   epoch, other, escaped, app>>
    /\ UNCHANGED aside

\* A call from a second listener (an example button, which empties the widget
\* first) while the generator of an earlier call is suspended: the guards are
\* those of any call, and the accepted call appends its user entry to the
\* list the suspended generator holds.  The suspended generator is kept in
\* other.
Overtake ==
    /\ \E user_message \in UserTexts :
           /\ pc # "idle"
           /\ other.pc = "idle"
           /\ submit_budget > 0
           /\ Guard(now, user_message) = "accepted"
           /\ other' = Generator(pc, handler, snapshot, last_step, item, seen, span, epoch)
           /\ LET conversation == Append(conversation_state,
                                         ChatMessage("user", user_message, NoMeta, None))
              IN /\ conversation_state' = conversation
                 /\ chatbot' = Snapshot(conversation)
                 /\ snapshot' = Snapshot(conversation)
           /\ call' = CallRecord(now, user_message, TRUE, "accepted", ~call.bit,
                                   AfterRejection("accepted"))
           /\ last_message_sent_time' = now
           /\ last_step' = "user"
           /\ pc' = "send"
           /\ submit_budget' = submit_budget - 1
           /\ span' = "none"
           /\ epoch' = thread
           /\ cleared' = FALSE
           /\ UNCHANGED <<now, handler, item, seen, sends, streams, event_budget, exits,
                          escaped, thread, sent_thread, stale>>
    /\ UNCHANGED aside

\* the scheduler turns to the other generator of the session
Switch ==
    /\ other.pc # "idle"
    /\ other' = Generator(pc, handler, snapshot, last_step, item, seen, span, epoch)
    /\ pc' = other.pc
    /\ handler' = other.handler
    /\ snapshot' = other.snapshot
    /\ last_step' = other.last_step
    /\ item' = other.item
    /\ seen' = other.seen
    /\ span' = other.span
    /\ epoch' = other.epoch
    /\ UNCHANGED <<now, last_message_sent_time, conversation_state, chatbot, call, sends,
                   streams, submit_budget, event_budget, exits, escaped, app>>
    /\ UNCHANGED aside

\* clear_history of main.py: a new thread and a new interface are created
\* and bound to the globals thread and azure_sales_chat, and the widget is
\* emptied.  The listeners of the widget keep the function they were
\* registered with, the interface of the first thread, whose transcript and
\* cooldown are untouched.
clear_history ==
    /\ thread < FirstThread + MaxClears
    /\ thread' = thread + 1
    /\ chatbot' = <<>>
    /\ cleared' = TRUE
    /\ stale' = Len(conversation_state)
    /\ UNCHANGED <<now, last_message_sent_time, conversation_state, pc, handler, snapshot,
                   last_step, call, item, seen, sends, streams, submit_budget, event_budget,
                   span, epoch, other, exits, escaped, sent_thread>>
    /\ UNCHANGED aside

\* the streams of the application carry text deltas, end, or break
NextApp ==
    \/ Tick
    \/ Submit
    \/ SendFails
    \/ OpenFails
    \/ OpenStream
    \/ MessageDelta
    \/ IterationFails
    \/ StreamEnds
    \/ SpanFails
    \/ CloseBeforeSend
    \/ CloseInStream
    \/ Overtake
    \/ Switch
    \/ clear_history

\* the application of main.py: the session with its tracer, the widget's
\* listeners and the clear button
SpecApp == Init /\ [][NextApp]_vars

\* ---------------------------------------------------------------- sales day
\* the module globals of sales_functions.py
Current == Globals(current_route, current_client_list, current_visit_index)

\* the function fn called with args returns: the globals are as it left
\* them; the result keeps what they were when it was called
Returns(fn, args, r) ==
    /\ current_route' = r.st.route
    /\ current_client_list' = r.st.list
    /\ current_visit_index' = r.st.index
    /\ result' = [fn |-> fn, args |-> args, out |-> r.out, bit |-> ~result.bit,
                  before |-> Current]

\* the clients returned since the list the function works on was fetched
Visited == IF Falsy(current_client_list) THEN <<>> ELSE visited

GetClientsForToday ==
    /\ \E fetched \in get_todays_clients(FetchCount) :
           Returns("get_clients_for_today", "", get_clients_for_today(Current, fetched))
    /\ finished' = FALSE
    /\ visited' = <<>>
    /\ UNCHANGED <<chat, formatting, details>>

PlanOptimalRoute ==
    /\ \E fetched \in get_todays_clients(FetchCount) :
           \E maps \in MapsReplies(Len(fetched)) :
               Returns("plan_optimal_route", "", plan_optimal_route(Current, fetched, maps))
    /\ visited' = Visited
    /\ UNCHANGED <<chat, formatting, details, finished>>

GetNextVisit ==
    /\ current_visit_index < MaxIndex
    /\ \E fetched \in get_todays_clients(FetchCount) :
           \E maps \in MapsReplies(Len(fetched)) :
               LET r == get_next_visit(Current, fetched, maps)
               IN /\ Returns("get_next_visit", "", r)
                  /\ finished' = (finished \/ r.out.status = "completed")
                  /\ visited' = IF r.out.status = "in_progress"
                                THEN Append(Visited, r.out.client_id)
                                ELSE Visited
    /\ UNCHANGED <<chat, formatting, details>>

GetCurrentVisitStatus ==
    /\ \E fetched \in get_todays_clients(FetchCount) :
           \E maps \in MapsReplies(Len(fetched)) :
               Returns("get_current_visit_status", "",
                       get_current_visit_status(Current, fetched, maps))
    /\ visited' = Visited
    /\ UNCHANGED <<chat, formatting, details, finished>>

GenerateLocationMap ==
    /\ \E args \in MapArgs, geocode \in GeocodeReplies, has_key \in BOOLEAN :
           Returns("generate_location_map", args,
                   generate_location_map(Current, args, geocode, has_key))
    /\ UNCHANGED <<chat, formatting, details, finished, visited>>

ResetSalesDay ==
    /\ Returns("reset_sales_day", "", reset_sales_day(Current))
    /\ finished' = FALSE
    /\ visited' = <<>>
    /\ UNCHANGED <<chat, formatting, details>>

NextSales ==
    \/ GetClientsForToday
    \/ PlanOptimalRoute
    \/ GetNextVisit
    \/ GetCurrentVisitStatus
    \/ GenerateLocationMap
    \/ ResetSalesDay

InitSales ==
    /\ Created
    /\ Apart
    /\ submit_budget = 0
    /\ event_budget = 0

\* the tools of the agent called in any order
SpecSales == InitSales /\ [][NextSales]_vars

\* ---------------------------------------------------------------- formatter
\* the functions whose outputs the formatter knows, and another one
FuncNames ==
    {"get_shelf_layout", "check_item_stock", "find_item_location",
     "get_items_needing_restock", "get_clients_for_today"}

\* the keys a JSON object output is made of
ObjectKeys ==
    {"layout_visual", "message", "error", "stock", "name", "item_id", "count",
     "location_id", "position", "low_stock_items"}

\* len(output_str) of the outputs: below the ellipsis threshold, between it
\* and the display budget, and above the budget
OutputLengths == {50, 150, 1500}

\* JSON object outputs
ObjectOutputs ==
    {ToolOutput("object", keys, len, IF "count" \in keys THEN 2 ELSE 0) :
        keys \in SUBSET ObjectKeys, len \in OutputLengths}

\* outputs that are no JSON
NonJsonOutputs == {ToolOutput("nonjson", {}, len, 0) : len \in OutputLengths}

InitFormat ==
    /\ Created
    /\ Imported
    /\ details = NoDetails
    /\ submit_budget = 0
    /\ event_budget = 0
    /\ formatting \in {[func_name |-> f, out |-> out, done |-> FALSE, raised |-> FALSE,
                         message |-> <<>>] :
                            f \in FuncNames, out \in ObjectOutputs \cup NonJsonOutputs}

\* the completed branch of on_run_step computes the display string
Format ==
    /\ ~formatting.done
    /\ LET f == FormatOutput(formatting.func_name, "function", formatting.out)
       IN formatting' = [formatting EXCEPT !.done = TRUE, !.raised = f.raised,
                                            !.message = f.message]
    /\ UNCHANGED <<chat, sales, details>>

\* the formatter applied to one output
SpecFormat == InitFormat /\ [][Format]_vars

\* ------------------------------------------------------- get_client_details
\* the client ids asked for: the sample clients and an unknown one
ClientIds == {"CL001", "CL002", "CL003", "CL999"}

\* the dates the function is called on
Today == {Date(y, m, d) : y \in {2024, 2025}, m \in {1, 3, 12}, d \in {1, 15, 31}}

InitClient ==
    /\ Created
    /\ Imported
    /\ formatting = NoFormatting
    /\ submit_budget = 0
    /\ event_budget = 0
    /\ details \in {DetailsCall(c, t, n, FALSE, 0, NoDetails.last_visit, FALSE, NoDetails.out) :
                        c \in ClientIds, t \in Today, n \in MinDaysAgo..MaxDaysAgo}

\* the call is made: it returns the error or enters its loop
GetClientDetails ==
    /\ ~details.done
    /\ ~details.looping
    /\ details' = get_client_details(details)
    /\ UNCHANGED <<chat, formatting, sales>>

\* a pass of the loop, the last one returning
LoopPass ==
    /\ details.looping
    /\ details' = MoveBack(details)
    /\ UNCHANGED <<chat, formatting, sales>>

NextClient ==
    \/ GetClientDetails
    \/ LoopPass

\* get_client_details applied to one client id on one day
SpecClient == InitClient /\ [][NextClient]_vars

\* ------------------------------------------------------------- properties
TypeOK ==
    /\ pc \in {"idle", "send", "stream"}
    /\ streams <= sends
    /\ now \in StartTime..(StartTime + MaxTime)
    /\ span \in {"none", "open", "ended"}
    /\ exits <= streams
    /\ thread \in FirstThread..(FirstThread + MaxClears)
    /\ stale <= Len(conversation_state)

\* this step took an item from the stream
Delivered == event_budget' = event_budget - 1

\* this step is a call of azure_store_chat
Called == call'.bit # call.bit

\* the history the call of this step was given
Given == IF call'.emptied THEN <<>> ELSE chatbot

\* the call of this step yielded the history it was given and did nothing else
NoOp ==
    /\ call'.outcome # "accepted"
    /\ chatbot' = Given
    /\ conversation_state' = conversation_state
    /\ sends' = sends
    /\ streams' = streams
    /\ pc' = pc

\* the positions of the entries created for a message id
EntriesFor(conv, id) == {i \in 1..Len(conv) : conv[i].src = id}

\* the positions of the bubbles of a call id
Bubbles(conv, call_id) ==
    {i \in 1..Len(conv) : MetaTruthy(conv[i].metadata) /\ conv[i].metadata.id = BubbleId(call_id)}

IsCompletion(it) ==
    it.type = "thread.message" /\ it.role = "assistant" /\ it.status = "completed"

IsToolCompletion(it) == it.type = "thread.run.step" /\ it.status = "completed"

\* after the completion event of this step there is one entry for its message
\* id, holding the event's final text
OneClosedEntry ==
    /\ Cardinality(EntriesFor(conversation_state', item'.id)) = 1
    /\ \A i \in EntriesFor(conversation_state', item'.id) :
           conversation_state'[i].content = item'.text

C3_Original ==
    [][(/\ Called
        /\ call.outcome # "none"
        /\ call'.text = call.text
        /\ Strip(call'.text) # <<>>
        /\ call'.t - call.t < 2)
          => NoOp]_vars

\* C3 amended: of two such calls at most one is accepted (one user entry, one
\* run), and when the first was accepted the second is a no-op that yields
\* the transcript it was given.
C3_DedupGuard ==
    [][(/\ Called
        /\ call.outcome # "none"
        /\ call'.text = call.text
        /\ Strip(call'.text) # <<>>
        /\ call'.t - call.t < 2)
          => /\ ~(call.outcome = "accepted" /\ call'.outcome = "accepted")
             /\ call.outcome = "accepted" => NoOp]_vars

\* the accepted submission is the only user entry and a later call with its
\* text was rejected within the cooldown
C3_Witness ==
    /\ call.outcome = "cooldown"
    /\ Strip(call.text) # <<>>
    /\ call.t - last_message_sent_time < 2
    /\ \E i \in 1..Len(conversation_state) :
           /\ conversation_state[i].role = "user"
           /\ conversation_state[i].content = call.text
    /\ Cardinality({i \in 1..Len(conversation_state) : conversation_state[i].role = "user"}) = 1
    /\ sends = 1

\* C4: a call whose text is empty after trimming yields the transcript it was
\* given, appends no entry, sends nothing and opens no stream.
C4_EmptyGuard ==
    [][(Called /\ Strip(call'.text) = <<>>) => NoOp]_vars

\* a blank text reached the empty guard, outside the cooldown, with a
\* transcript already there
C4_Witness ==
    /\ call.outcome = "empty"
    /\ call.text = <<" ">>
    /\ conversation_state # <<>>

\* this step took an item whose processing raised, in the loop body or in the
\* handler's callback
RaisedOnItem == Delivered /\ last_step' \in {"skipped", "absorbed", "stream_error"}

C6_SendFailure ==
    [][(pc = "send" /\ last_step' = "send_error")
          => /\ Len(conversation_state') = Len(conversation_state) + 1
             /\ SubSeq(conversation_state', 1, Len(conversation_state)) = conversation_state
             /\ conversation_state[Len(conversation_state)].role = "user"
             /\ conversation_state'[Len(conversation_state')].role = "assistant"
             /\ snapshot' = Snapshot(conversation_state')
             /\ pc' = "idle"
             /\ sends' = sends
             /\ streams' = streams]_vars

\* a send failed: the transcript ends with the user entry and the error entry
C6_Witness ==
    /\ last_step = "send_error"
    /\ pc = "idle"
    /\ Len(conversation_state) >= 2
    /\ conversation_state[Len(conversation_state) - 1].role = "user"
    /\ conversation_state[Len(conversation_state)].content = SendErrorText
    /\ streams = 0

\* C7: when create_stream or the iteration raises, one assistant entry is
\* appended to the entries already there, the snapshot with it is yielded and
\* the generator ends.
C7_StreamFailure ==
    [][(pc # "idle" /\ last_step' = "stream_error")
          => /\ Len(conversation_state') = Len(conversation_state) + 1
             /\ SubSeq(conversation_state', 1, Len(conversation_state)) = conversation_state
             /\ conversation_state'[Len(conversation_state')].role = "assistant"
             /\ conversation_state'[Len(conversation_state')].content = StreamErrorText
             /\ snapshot' = Snapshot(conversation_state')
             /\ pc' = "idle"]_vars

\* the stream broke after an event had added an entry: user entry, that
\* entry, the error entry
C7_Witness ==
    /\ last_step = "stream_error"
    /\ pc = "idle"
    /\ streams = 1
    /\ Len(conversation_state) = 3
    /\ conversation_state[2].content # StreamErrorText
    /\ conversation_state[3].content = StreamErrorText
    /\ snapshot = Snapshot(conversation_state)

\* the generator of an accepted submission finishes in this step
Finishes == pc # "idle" /\ pc' = "idle"

\* C8 as stated: the snapshot a call yields last equals the session transcript
\* at that moment, for a rejected call as for an accepted one.
C8_Original ==
    [][/\ (Called /\ call'.outcome # "accepted") => chatbot' = Snapshot(conversation_state')
       /\ Finishes => snapshot' = Snapshot(conversation_state')]_vars

\* C8 amended: a rejected call yields one snapshot, the transcript it was
\* given; an accepted call yields the transcript with the user entry, and the
\* snapshot it yields last, on every path, equals the session transcript.
C8_FinalSnapshot ==
    [][/\ (Called /\ call'.outcome # "accepted") => chatbot' = Given
       /\ (Called /\ call'.outcome = "accepted") => snapshot' = Snapshot(conversation_state')
       /\ Finishes => (snapshot' = Snapshot(conversation_state') /\ chatbot' = snapshot')]_vars

\* a stream that skipped an item has finished, and a later call was rejected
C8_Witness ==
    /\ call.outcome \in {"cooldown", "empty"}
    /\ pc = "idle"
    /\ last_step = "finished"
    /\ <<"bad", "">> \in seen
    /\ snapshot = Snapshot(conversation_state)

\* C9: an item the loop body processes is followed by the yield of the
\* transcript as the item's event left it, and the generator is suspended
\* there until the next item is asked for.
C9_SnapshotPerEvent ==
    [][(Delivered /\ last_step' \in {"event", "absorbed"})
          => /\ snapshot' = Snapshot(conversation_state')
             /\ chatbot' = snapshot'
             /\ pc' = "stream"]_vars

\* three events were processed, the last one changed the transcript and the
\* snapshot shows it
C9_Witness ==
    /\ pc = "stream"
    /\ last_step = "event"
    /\ event_budget = 0
    /\ Len(conversation_state) = 3
    /\ item.type = "thread.message.delta"
    /\ conversation_state[3].content = <<"x">>
    /\ snapshot = Snapshot(conversation_state)

\* C10 as stated: a bubble whose status is done or error is not pending
\* after any step.
C10_Original ==
    [][\A i \in 1..Len(conversation_state) :
          (/\ MetaTruthy(conversation_state[i].metadata)
           /\ conversation_state[i].metadata.status \in {"done", "error"}
           /\ i <= Len(conversation_state'))
             => conversation_state'[i].metadata.status # "pending"]_vars

IsMessageDelta(it) == it.type = "thread.message.delta"

\* C11 as stated: a text delta for a message id that has an entry adds no
\* entry and appends its fragment to the content of that entry, whatever the
\* stream delivered before it.
C11_Original ==
    [][(/\ Delivered
        /\ IsMessageDelta(item')
        /\ EntriesFor(conversation_state, item'.id) # {})
          => /\ Len(conversation_state') = Len(conversation_state)
             /\ \A i \in EntriesFor(conversation_state, item'.id) :
                    conversation_state'[i].content = conversation_state[i].content \o item'.text]_vars

IsRunStep(it) == it.type = "thread.run.step"

\* the bubble of the call of this step's item is resolved and titled with
\* the name given
ResolvedAs(func_name) ==
    /\ Cardinality(Bubbles(conversation_state', item'.id)) = 1
    /\ \A i \in Bubbles(conversation_state', item'.id) :
           /\ conversation_state'[i].metadata.status \in {"done", "error"}
           /\ conversation_state'[i].metadata.title =
                  BubbleTitle(func_name, conversation_state'[i].metadata.status)

\* C12 as stated: a completed or failed tool_calls step for a call_id that is
\* not tracked does not raise, and leaves exactly one resolved bubble for the
\* call_id, titled with the name unknown_function.
C12_Original ==
    [][(/\ Delivered
        /\ IsRunStep(item')
        /\ item'.status \in {"completed", "failed"}
        /\ item'.id \notin DOMAIN handler.tools)
          => /\ last_step' = "event"
             /\ ResolvedAs("unknown_function")]_vars

\* the entry keeps its place: same role, same metadata id
SameSlot(a, b) ==
    /\ a.role = b.role
    /\ a.metadata.kind = b.metadata.kind
    /\ a.metadata.id = b.metadata.id

\* C13: while a submission is handled, a step only appends entries or changes
\* an entry in place: the transcript does not get shorter and the entry at
\* each position keeps its role and its metadata id.
C13_AppendOrMutate ==
    [][pc # "idle"
          => /\ Len(conversation_state') >= Len(conversation_state)
             /\ \A i \in 1..Len(conversation_state) :
                    SameSlot(conversation_state'[i], conversation_state[i])]_vars

\* the bubble at position 2 was resolved in place while a text entry
\* follows it
C13_Witness ==
    /\ IsToolCompletion(item)
    /\ last_step = "event"
    /\ Len(conversation_state) = 3
    /\ Bubbles(conversation_state, "c1") = {2}
    /\ conversation_state[2].metadata.status = "done"
    /\ conversation_state[3].src = "m1"

\* C14: no two entries of the transcript carry the same metadata id.
C14_UniqueMetadataIds ==
    \A i, j \in 1..Len(conversation_state) :
        (/\ i # j
         /\ MetaTruthy(conversation_state[i].metadata)
         /\ MetaTruthy(conversation_state[j].metadata))
           => conversation_state[i].metadata.id # conversation_state[j].metadata.id

\* the call was started, failed and completed, and has one bubble
C14_Witness ==
    /\ seen = {<<"start", "c1">>, <<"failed", "c1">>, <<"completed", "c1">>}
    /\ IsToolCompletion(item)
    /\ Cardinality(Bubbles(conversation_state, "c1")) = 1

IsTerminalStep(it) == IsRunStep(it) /\ it.status \in {"completed", "failed"}

\* C15 as stated: a function delta that introduces a call_id leaves it
\* tracked; a completed or failed step that is processed leaves it untracked
\* and its bubble in the transcript; any other event leaves a tracked call_id
\* tracked.
C15_Original ==
    [][Delivered
          => /\ (item'.type = "thread.run.step.delta" /\ last_step' = "event")
                   => item'.id \in DOMAIN handler'.tools
             /\ (IsTerminalStep(item') /\ last_step' = "event")
                   => /\ item'.id \notin DOMAIN handler'.tools
                      /\ Bubbles(conversation_state, item'.id) # {}
                            => Bubbles(conversation_state', item'.id) # {}
             /\ ~IsTerminalStep(item')
                   => DOMAIN handler.tools \subseteq DOMAIN handler'.tools]_vars

\* C16: a thread_run event of any status leaves the transcript as it was.
C16_RunStatusFrame ==
    [][(Delivered /\ item'.type = "thread.run") => conversation_state' = conversation_state]_vars

\* a failed run was reported after two events had added entries
C16_Witness ==
    /\ item.type = "thread.run"
    /\ item.status = "failed"
    /\ last_step = "event"
    /\ event_budget = 0
    /\ Len(conversation_state) = 3
    /\ snapshot = Snapshot(conversation_state)

\* the submission before this step ended on a failure path
Failed == pc = "idle" /\ last_step \in {"send_error", "stream_error", "raised"}

\* C17 as stated: no exception leaves a generator; and a call with a text
\* that is not blank, made at least 2 seconds after a submission that failed,
\* is accepted: its user entry is appended and the send comes next.
C17_Original ==
    [][/\ ~escaped'
       /\ (/\ Called
           /\ Failed
           /\ Strip(call'.text) # <<>>
           /\ call'.t - last_message_sent_time >= Cooldown)
            => /\ call'.outcome = "accepted"
               /\ conversation_state'[Len(conversation_state')] =
                      ChatMessage("user", call'.text, NoMeta, None)
               /\ pc' = "send"]_vars

\* C18 as stated: the message of a submission goes to the thread that was
\* the current one when it was submitted; and the first submission accepted
\* after clear_history yields a snapshot with none of the entries made before
\* the clear.
C18_Original ==
    [][/\ sends' = sends + 1 => sent_thread' = epoch
       /\ (Called /\ call'.outcome = "accepted" /\ cleared)
            => \A i \in 1..Len(snapshot') : i > stale]_vars

\* C19 as stated: a call made while a generator of the session has not
\* finished appends nothing and opens no stream, and no two generators of
\* the session have a stream open together.
C19_Original ==
    [][/\ (Called /\ pc # "idle") => (NoOp /\ other' = other)
       /\ ~(pc' = "stream" /\ other'.pc = "stream")]_vars

\* the generators that have a stream open
InStream(p, o) == (IF p = "stream" THEN 1 ELSE 0) + (IF o.pc = "stream" THEN 1 ELSE 0)

\* C20: when the generator leaves the streaming block, closed by its caller
\* at the yield of the loop or by an exception or at the end of the stream,
\* the stream's with block is left once and the span is ended; every stream
\* opened is either still open in a generator or was left exactly once.
C20_StreamReleased ==
    [][/\ (pc = "stream" /\ pc' = "idle" /\ other' = other)
            => (exits' = exits + 1 /\ span' = "ended")
       /\ exits' + InStream(pc', other') = streams'
       /\ pc' = "idle" => span' # "open"]_vars

\* the caller closed the generator after an event had been shown: the one
\* stream opened was left and the span ended
C20_Witness ==
    /\ last_step = "closed"
    /\ pc = "idle"
    /\ IsMessageDelta(item)
    /\ streams = 1
    /\ exits = 1
    /\ span = "ended"

\* the key that selects the template of a function, "" when it has none
TemplateTrigger(func_name) ==
    CASE func_name = "check_item_stock" -> "stock"
      [] func_name = "find_item_location" -> "location_id"
      [] func_name = "get_items_needing_restock" -> "count"
      [] OTHER -> ""

\* the display string the priority order names for an object output
PriorityOrder(func_name, out) ==
    IF "layout_visual" \in out.keys THEN <<Field("layout_visual")>>
    ELSE IF "message" \in out.keys THEN <<Field("message")>>
    ELSE IF "error" \in out.keys THEN <<"Error: ", Field("error")>>
    ELSE IF TemplateTrigger(func_name) \in out.keys
    THEN IF func_name = "get_items_needing_restock"
         THEN IF out.count > 0 THEN <<"Found low stock items:", ToString(out.count)>>
              ELSE <<"No items found needing restock.">>
         ELSE <<"template:", func_name>>
    ELSE <<"Completed. Output: ", Truncated(out)>> \o Ellipsis(out)

\* C21: for a completed function tool call whose output is a JSON object the
\* display string is chosen by the first matching rule: the pre-built display
\* field verbatim, else the message field, else "Error: <error>", else the
\* template of the function, else the truncated raw output.
C21_Original ==
    (formatting.done /\ formatting.out.kind = "object") =>
        /\ ~formatting.raised
        /\ formatting.message = PriorityOrder(formatting.func_name, formatting.out)

\* a stock output without the item's name: the template raises KeyError
C21_MissingTemplateKey ==
    /\ formatting.done
    /\ formatting.func_name = "check_item_stock"
    /\ formatting.out.keys = {"stock"}
    /\ formatting.raised

\* a display field in the output of another function than get_shelf_layout
\* is passed over for the message field
C21_DisplayFieldPassedOver ==
    /\ formatting.done
    /\ formatting.func_name = "get_clients_for_today"
    /\ formatting.out.keys = {"layout_visual", "message"}
    /\ formatting.message = <<Field("message")>>

\* an output with both message and error displays the message
C21_MessageBeforeError ==
    (formatting.done /\ {"message", "error"} \subseteq formatting.out.keys
        /\ ~("layout_visual" \in formatting.out.keys /\ formatting.func_name = "get_shelf_layout"))
        => (~formatting.raised /\ formatting.message = <<Field("message")>>)

\* the display of a tool output that is no JSON
NonJsonDisplay(out) == <<"Completed. Output (non-JSON): ", Truncated(out)>> \o Ellipsis(out)

\* the name on_run_step resolves for the call of an item
NameOf(h, it) == IF it.id \in DOMAIN h.tools THEN h.tools[it.id].name ELSE "unknown_function"

C23_Original ==
    [][(pc = "send" /\ pc' # "send" /\ other' = other /\ last_step' # "closed")
          => \/ pc' = "stream"
             \/ /\ Len(conversation_state') = Len(conversation_state) + 1
                /\ snapshot' = Snapshot(conversation_state')]_vars

\* this step is a call of the sales function fn
Ran(fn) == result'.bit # result.bit /\ result'.fn = fn

\* the first k clients of the list
FirstClients(list, k) == SubSeq(list.clients, 1, Min(k, Len(list.clients)))

\* C24: with a list of n >= 1 clients and the index i, -1 <= i < n-1,
\* get_next_visit sets the index to i+1 and returns the client at position
\* i+1 (from 0) with visit_number i+2, total_visits n and status in_progress;
\* the clients returned since the list was fetched are the first ones of the
\* list, each once and in list order.
C24_NextVisitAdvances ==
    [][/\ (/\ Ran("get_next_visit")
           /\ ~Falsy(current_client_list)
           /\ current_visit_index >= -1
           /\ current_visit_index < Len(current_client_list.clients) - 1)
            => /\ current_visit_index' = current_visit_index + 1
               /\ current_client_list' = current_client_list
               /\ result'.out = Json("in_progress",
                                     current_client_list.clients[current_visit_index + 2],
                                     current_visit_index + 2,
                                     Len(current_client_list.clients), 0, "")
       /\ ~Falsy(current_client_list')
            => visited' = FirstClients(current_client_list', current_visit_index' + 1)]_vars

\* the third call of get_next_visit has returned the last client of the list
C24_Witness ==
    /\ result.fn = "get_next_visit"
    /\ result.out.status = "in_progress"
    /\ result.out.visit_number = 3
    /\ current_visit_index = 2
    /\ visited = current_client_list.clients
    /\ visited = <<"CL002", "CL003", "CL001">>

\* C25: with a list of n clients and the index i, get_current_visit_status
\* changes no global and returns not_started at the office when i < 0,
\* in_progress for the client at position i with visit_number i+1 and
\* remaining_visits n-i-1 when 0 <= i < n, and completed with total_visits n
\* when i >= n; called after a get_next_visit that returned in_progress it
\* reports the client_id of that visit.
C25_StatusByIndex ==
    [][(Ran("get_current_visit_status") /\ ~Falsy(current_client_list))
          => LET i == current_visit_index
                 list == current_client_list.clients
                 n == Len(list)
             IN /\ UNCHANGED <<current_route, current_client_list, current_visit_index>>
                /\ i < 0 => result'.out = Json("not_started", "", 0, 0, 0, "Office")
                /\ (0 <= i /\ i < n)
                      => result'.out = Json("in_progress", list[i + 1], i + 1, n, n - i - 1, "")
                /\ i >= n => result'.out = Json("completed", "", 0, n, 0, "Office")
                /\ (result.fn = "get_next_visit" /\ result.out.status = "in_progress")
                      => /\ result'.out.status = "in_progress"
                         /\ result'.out.client_id = result.out.client_id]_vars

\* the status was asked during the second of three visits
C25_Witness ==
    /\ result.fn = "get_current_visit_status"
    /\ result.out.status = "in_progress"
    /\ result.out.visit_number = 2
    /\ result.out.remaining_visits = 1
    /\ result.out.client_id = "CL003"
    /\ visited = <<"CL001", "CL003">>

\* C26: from any state reset_sales_day sets current_route and
\* current_client_list to None and current_visit_index to -1 and returns
\* status success; a second reset right after leaves the same globals and
\* returns the same.
C26_ResetClears ==
    [][Ran("reset_sales_day")
          => /\ current_route' = NoRoute
             /\ current_client_list' = NoClients
             /\ current_visit_index' = -1
             /\ result'.out.status = "success"
             /\ reset_sales_day(Globals(current_route', current_client_list',
                                        current_visit_index')).st
                  = Globals(current_route', current_client_list', current_visit_index')
             /\ result.fn = "reset_sales_day"
                  => /\ Current = Globals(NoRoute, NoClients, -1)
                     /\ result'.out = result.out]_vars

\* the day was reset with a route planned and the second visit in progress
C26_Witness ==
    /\ result.fn = "reset_sales_day"
    /\ result.before.route.some
    /\ result.before.list.some
    /\ result.before.index = 1
    /\ current_route = NoRoute
    /\ current_client_list = NoClients
    /\ current_visit_index = -1

\* C27: with the index at or past the last client of the list get_next_visit
\* returns completed with location Office; and once it has returned
\* completed, get_next_visit and get_current_visit_status return completed
\* until reset_sales_day or get_clients_for_today is called.
C27_CompletedIsAbsorbing ==
    [][/\ (/\ Ran("get_next_visit")
           /\ ~Falsy(current_client_list)
           /\ current_visit_index >= Len(current_client_list.clients) - 1)
            => /\ result'.out.status = "completed"
               /\ result'.out.location = "Office"
       /\ (finished /\ (Ran("get_next_visit") \/ Ran("get_current_visit_status")))
            => result'.out.status = "completed"
       /\ (finished /\ ~Ran("reset_sales_day") /\ ~Ran("get_clients_for_today"))
            => finished']_vars

\* the status is asked with a route planned and get_next_visit called twice
\* past the last client
C27_Witness ==
    /\ finished
    /\ result.fn = "get_current_visit_status"
    /\ result.out.status = "completed"
    /\ result.before.index = 4
    /\ current_route.some

\* C28 as stated: after plan_optimal_route has succeeded, get_next_visit
\* advances through the clients in the order of the optimized route: the
\* visit it returns is the stop of the route at the new index.
C28_Original ==
    [][(/\ Ran("get_next_visit")
        /\ result.fn = "plan_optimal_route"
        /\ result.out.status = "route"
        /\ result'.out.status = "in_progress")
          => result'.out.client_id =
                 current_client_list.clients[current_route.order[current_visit_index' + 1]]]_vars

\* C29 as stated: the first snapshot of an accepted submission is the history
\* the call was given followed by one user entry, also when that history is
\* empty and the session has handled submissions before.
C29_Original ==
    [][(Called /\ call'.outcome = "accepted")
          => snapshot' = Given \o Snapshot(<<ChatMessage("user", call'.text, NoMeta, None)>>)]_vars

\* the same for the calls given a history that is not empty
C29_GivenHistory ==
    [][(Called /\ call'.outcome = "accepted" /\ Given # <<>>)
          => snapshot' = Given \o Snapshot(<<ChatMessage("user", call'.text, NoMeta, None)>>)]_vars

\* the user entries of a transcript
UserEntries(conv) == {i \in 1..Len(conv) : conv[i].role = "user"}

\* C30: the cooldown is measured from the last accepted submission: an
\* accepted call sets last_message_sent_time to its time, a rejected call and
\* every other step leave it, and a call with a text that is not blank made
\* at least 2 seconds after the last accepted one is accepted, whatever
\* rejected calls came in between.
C30_CooldownFromAccepted ==
    [][/\ Called
            => /\ call'.outcome # "accepted" => last_message_sent_time' = last_message_sent_time
               /\ call'.outcome = "accepted" => last_message_sent_time' = call'.t
               /\ (Strip(call'.text) # <<>> /\ call'.t - last_message_sent_time >= Cooldown)
                     => call'.outcome = "accepted"
       /\ ~Called => last_message_sent_time' = last_message_sent_time]_vars

\* the second submission was accepted 2 seconds after the first, right after
\* a call that had been rejected
C30_Witness ==
    /\ call.outcome = "accepted"
    /\ call.after_rejection
    /\ call.t = StartTime + Cooldown
    /\ last_message_sent_time = call.t
    /\ Cardinality(UserEntries(conversation_state)) = 2

\* C31 as stated: a completed assistant message applied a second time, right
\* after the stream delivered it, leaves the transcript as the first
\* application left it, whether or not the message id has an entry.
C31_Original ==
    [][(/\ Delivered
        /\ IsCompletion(item')
        /\ item' = item
        /\ last_step = "event"
        /\ <<"message", item.id>> \in seen)
          => conversation_state' = conversation_state]_vars

\* the same for a message id the handler has mapped to an entry
C31_MappedId ==
    [][(/\ Delivered
        /\ IsCompletion(item')
        /\ item' = item
        /\ last_step = "event"
        /\ <<"message", item.id>> \in seen
        /\ item.id \in DOMAIN handler.map)
          => conversation_state' = conversation_state]_vars

IsRunStepDelta(it) == it.type = "thread.run.step.delta"

Fallback(func_name, out) ==
    \/ out.kind = "nonjson"
    \/ /\ out.kind = "object"
       /\ out.keys \cap {"message", "error"} = {}
       /\ ~(func_name = "get_shelf_layout" /\ "layout_visual" \in out.keys)
       /\ TemplateTrigger(func_name) \notin out.keys

\* C33 as stated: the fallback display shows at most the first 1000
\* characters of the raw output and ends with the ellipsis exactly when the
\* output is longer than 1000 characters.
C33_Original ==
    (formatting.done /\ Fallback(formatting.func_name, formatting.out))
        => /\ ~formatting.raised
           /\ formatting.message[2] = Truncated(formatting.out)
           /\ (formatting.message[Len(formatting.message)] = "...")
                <=> formatting.out.len > DisplayBudget

\* the fallback display shows at most the first 1000 characters
C33_TruncatedToBudget ==
    (formatting.done /\ Fallback(formatting.func_name, formatting.out))
        => /\ ~formatting.raised
           /\ formatting.message[2] = Truncated(formatting.out)

\* an entry converted to a dict and back
RoundTrip(msg) == convert_dict_to_chatmessage(convert_chatmessage_to_dict(msg))

\* the conversion to a dict and back keeps the role, the content and the
\* metadata keys of an entry, and the dict of an entry without metadata has
\* metadata {}
Preserved(msg) ==
    /\ RoundTrip(msg).role = msg.role
    /\ RoundTrip(msg).content = msg.content
    /\ MetaTruthy(msg.metadata) => RoundTrip(msg).metadata = msg.metadata
    /\ ~MetaTruthy(msg.metadata) => convert_chatmessage_to_dict(msg).metadata = EmptyMeta

VisitActive ==
    /\ ~Falsy(current_client_list)
    /\ 0 <= current_visit_index
    /\ current_visit_index < Len(current_client_list.clients)

\* C35: generate_location_map called with no query and no coordinates
\* returns the error "No location specified and no current visit active"
\* exactly when no visit is in progress (no list, not started, all visits
\* completed); with a visit in progress the map it returns is that of the
\* client at the index; and it leaves the route, the list and the index.
C35_MapOfCurrentVisit ==
    [][(Ran("generate_location_map") /\ result'.args = "")
          => /\ result'.out.location = "no_location" <=> ~VisitActive
             /\ result'.out.status = "map"
                   => result'.out.client_id =
                          current_client_list.clients[current_visit_index + 1]
             /\ UNCHANGED <<current_route, current_client_list, current_visit_index>>]_vars

\* the map of the second visit was asked for without naming a place
C35_Witness ==
    /\ result.fn = "generate_location_map"
    /\ result.args = ""
    /\ result.out.status = "map"
    /\ current_visit_index = 1
    /\ result.out.client_id = current_client_list.clients[2]
    /\ result.out.client_id = "CL003"

\* the map was asked for after the last visit and there was no location
C35_AfterLastVisit ==
    /\ result.fn = "generate_location_map"
    /\ result.args = ""
    /\ result.out.location = "no_location"
    /\ finished

Leap(y) == (y % 4 = 0 /\ y % 100 # 0) \/ y % 400 = 0

\* the days of the months of a year
MonthDays(y) == <<31, IF Leap(y) THEN 29 ELSE 28, 31, 30, 31, 30, 31, 31, 30, 31, 30, 31>>

RECURSIVE DaysBeforeMonth(_, _)
DaysBeforeMonth(y, m) == IF m = 1 THEN 0 ELSE DaysBeforeMonth(y, m - 1) + MonthDays(y)[m - 1]

\* the number of a day in the calendar
DayNumber(d) ==
    LET y == d.year - 1
    IN 365 * y + (y \div 4) - (y \div 100) + (y \div 400) + DaysBeforeMonth(d.year, d.month) + d.day

\* C36 as stated: for an existing client id get_client_details returns a
\* last_visit between 15 and 60 days before today and the client's own fields
\* unchanged; for an unknown id it returns an error naming the id.
C36_Original ==
    details.done
        => IF details.client_id \in {"CL001", "CL002", "CL003"}
           THEN /\ ~details.out.is_error
                /\ DayNumber(details.today) - DayNumber(details.out.last_visit) >= MinDaysAgo
                /\ DayNumber(details.today) - DayNumber(details.out.last_visit) <= MaxDaysAgo
                /\ \A k \in ClientKeys : details.out.from[k] = "client"
           ELSE details.out.is_error /\ details.out.named = details.client_id

\* the client's own fields are returned unchanged, and an unknown id gives an
\* error naming it
C36_FieldsKept ==
    details.done
        => IF details.client_id \in {"CL001", "CL002", "CL003"}
           THEN /\ ~details.out.is_error
                /\ \A k \in ClientKeys : details.out.from[k] = "client"
           ELSE details.out.is_error /\ details.out.named = details.client_id

\* C37: the cooldown does not compare texts: a call made less than 2 seconds
\* after the last accepted one is rejected by the cooldown as a no-op that
\* yields the history it was given, whatever its text; the first call of a
\* session is never rejected by the cooldown.
C37_CooldownIgnoresText ==
    [][Called
         => /\ call'.t - last_message_sent_time < Cooldown
                  => (call'.outcome = "cooldown" /\ NoOp)
            /\ call.outcome = "none" => call'.outcome # "cooldown"]_vars

\* a call with another text than the accepted submission's was rejected
\* within the cooldown
C37_Witness ==
    /\ call.outcome = "cooldown"
    /\ Strip(call.text) # <<>>
    /\ call.t - last_message_sent_time < Cooldown
    /\ UserEntries(conversation_state) # {}
    /\ \A i \in UserEntries(conversation_state) :
           conversation_state[i].content # call.text
    /\ pc = "idle"

\* the user entries of conv are in later, at their positions and with their
\* content
UserEntriesKept(conv, later) ==
    \A i \in UserEntries(conv) :
        /\ i <= Len(later)
        /\ later[i].role = "user"
        /\ later[i].content = conv[i].content

\* C38: no stream event and no error path changes the role or the content of
\* a user entry or removes one: after every step that is not an accepted
\* call, each user entry of the transcript and of the last snapshot is at
\* its position, unchanged, in the transcript and in the snapshot after it.
C38_UserEntriesKept ==
    [][~(Called /\ call'.outcome = "accepted")
         => /\ UserEntriesKept(conversation_state, conversation_state')
            /\ UserEntriesKept(snapshot, snapshot')]_vars

\* the stream of the submission delivered a text and a tool bubble and then
\* broke: the user entry is still the first entry of the snapshot
C38_Witness ==
    /\ last_step = "stream_error"
    /\ Len(snapshot) >= 4
    /\ UserEntries(snapshot) = {1}
    /\ snapshot[1].content = call.text
    /\ \E i \in 2..Len(snapshot) : MetaTruthy(snapshot[i].metadata)
    /\ \E i \in 2..Len(snapshot) :
           ~MetaTruthy(snapshot[i].metadata) /\ snapshot[i].content = <<"x">>

\* this step delivered a run step that resolved the bubble of its tool call:
\* the step completed or failed, the callback did not raise, and the name
\* recorded for the call, if any, is not None
Resolves ==
    /\ Delivered
    /\ item'.type = "thread.run.step"
    /\ item'.status \in {"completed", "failed"}
    /\ last_step' = "event"
    /\ item'.id \in DOMAIN handler.tools => handler.tools[item'.id].name # None

\* the position of the bubble the step resolved: the one the backward search
\* of create_tool_bubble finds for the call id
ResolvedBubble ==
    FindBubble(conversation_state', BubbleId(item'.id), Len(conversation_state'))

\* the position of the user entry of the running submission: the last one
SubmissionEntry(conv) ==
    CHOOSE i \in UserEntries(conv) : \A j \in UserEntries(conv) : j <= i

\* C39 as stated: the tool bubble a run step resolves is positioned after the
\* user entry of the submission, also when a bubble of an earlier submission
\* with its call id is still in the transcript.
C39_Original ==
    [][Resolves => ResolvedBubble > SubmissionEntry(conversation_state')]_vars

\* the bubble a run step resolves is positioned after the user entry of the
\* submission when no bubble with its call id came before that entry
C39_FreshCallId ==
    [][(/\ Resolves
        /\ \A i \in Bubbles(conversation_state, item'.id) :
               i > SubmissionEntry(conversation_state))
          => ResolvedBubble > SubmissionEntry(conversation_state')]_vars

====
